---- MODULE Spec2Model ----
(***************************************************************************)
(* A model of fshandler.go: the static file handler FSHandler, its cache   *)
(* of open file handles with the background sweep cleanCache, the pooled   *)
(* reader fsFileReader, the resolver openFSFile / createDirIndex and the   *)
(* path normalisation stripPathSlashes.                                    *)
(*                                                                         *)
(* Three specifications share the module:                                  *)
(*   Spec         concurrent request handlers, body-stream consumers, the  *)
(*                sweeper goroutine and the clock, over one file tree;     *)
(*   SpecStrip    stripPathSlashes applied to every bounded path;          *)
(*   SpecResolve  openFSFile / createDirIndex applied to every bounded     *)
(*                tree of nested index.html entries.                       *)
(***************************************************************************)
EXTENDS Integers, Sequences, FiniteSets, TLC

VARIABLES
    root,          \* fsHandler.root
    stripSlashes,  \* fsHandler.stripSlashes
    fs,            \* the file tree: path -> kind of node
    now,           \* the wall clock read by time.Now()
    wakeAt,        \* when the sweeper's time.Sleep returns
    cache,         \* fsHandler.cache: normalized path -> index into files
    files,         \* the fsFile objects allocated so far
    handles,       \* the *os.File handles retained by an fsFile, with the
                   \* number of Close calls on each and the time of the last
    insertedAt,    \* history: when each fsFile was put in the cache
    cursors,       \* the fsFileReader objects allocated so far
    pool,          \* fsFileReaderPool: the cursors put back
    workers,       \* one record per request-serving goroutine
    panicked,      \* a panic() was raised
    sp,            \* SpecStrip: one call of stripPathSlashes
    rs,            \* SpecResolve: one resolution of a path
    lk             \* SpecLock: cacheLock and the place of each goroutine

vars == <<root, stripSlashes, fs, now, wakeAt, cache, files, handles,
          insertedAt, cursors, pool, workers, panicked, sp, rs, lk>>

----------------------------------------------------------------------------
(* Bytes and byte strings.  A byte is a one-character string; NUL is the   *)
(* zero byte.  A path is a sequence of bytes.                              *)

NUL == "NUL"

Nil == 0

Min(a, b) == IF a < b THEN a ELSE b

\* bytes.IndexByte: the zero-based index of the first c in s, or -1.
IndexByte(s, c) ==
    IF \E i \in 1..Len(s) : s[i] = c
    THEN (CHOOSE i \in 1..Len(s) : s[i] = c /\ \A j \in 1..(i-1) : s[j] # c) - 1
    ELSE -1

\* Go's s[k:] with a zero-based k.
From(s, k) == SubSeq(s, k + 1, Len(s))

----------------------------------------------------------------------------
(* stripPathSlashes                                                        *)

\* A mutant of AfterSegment: the cut is one byte too far.
AfterSegmentOffByOne(path, n) == From(path, n + 2)

\* path = path[n+1:], n being the index of the next slash in path[1:].
AfterSegment(path, n) == From(path, n + 1)

\* A mutant of StripTrailing: an if instead of the for loop.
StripTrailingOnce(path) ==
    IF Len(path) > 0 /\ path[Len(path)] = "/"
    THEN SubSeq(path, 1, Len(path) - 1)
    ELSE path

\* The second loop: strip trailing slashes.
RECURSIVE StripTrailing(_)
StripTrailing(path) ==
    IF Len(path) > 0 /\ path[Len(path)] = "/"
    THEN StripTrailing(SubSeq(path, 1, Len(path) - 1))
    ELSE path

\* The first loop: strip s leading segments.  iters counts the iterations
\* begun, panic tells that "BUG: path must start with slash" was raised.
RECURSIVE StripLeading(_, _, _)
StripLeading(path, s, iters) ==
    IF s > 0 /\ Len(path) > 0
    THEN IF path[1] # "/"
         THEN [path |-> path, panic |-> TRUE, iters |-> iters + 1]
         ELSE LET n == IndexByte(Tail(path), "/")
              IN  IF n < 0
                  THEN [path |-> <<>>, panic |-> FALSE, iters |-> iters + 1]
                  ELSE StripLeading(AfterSegment(path, n), s - 1, iters + 1)
    ELSE [path |-> path, panic |-> FALSE, iters |-> iters]

stripPathSlashes(path, s) ==
    LET lead == StripLeading(path, s, 0)
    IN  IF lead.panic
        THEN lead
        ELSE [lead EXCEPT !.path = StripTrailing(lead.path)]

----------------------------------------------------------------------------
(* The file system.  fs maps a path to the kind of node found there; a     *)
(* path outside its domain does not exist.  The tree does not change while *)
(* the handler runs.                                                       *)

DirKinds == {"dir", "dirnolist"}

\* "file": a regular file;  "bigfile": a regular file whose size does not fit
\* the platform's int;  "eacces": os.Open fails with a permission error;
\* "statfail": f.Stat fails;  "dir": a directory;  "dirnolist": a directory
\* whose Readdirnames fails.
Kinds == {"file", "bigfile", "eacces", "statfail"} \cup DirKinds

KindOf(p) == IF p \in DOMAIN fs THEN fs[p] ELSE "none"

IndexHtml == <<"/", "i", "n", "d", "e", "x", ".", "h", "t", "m", "l">>

\* The width of the platform's int, scaled down.
IntBits == 8

\* The size of a "bigfile": it does not fit an int, whatever IntBits is.
BigSize == 2 ^ (IntBits + 1) + 1

\* The bytes of the regular file at p: the last two bytes of its name, so
\* that different files hold different bytes.
FileContent(p) == SubSeq(p, Len(p) - 1, Len(p))

\* stat.Size()
StatSize(p) == IF KindOf(p) = "bigfile" THEN BigSize ELSE Len(FileContent(p))

\* int(n) for an int64 n: truncation to the platform's int.
ToInt(n) ==
    LET m == n % (2 ^ IntBits)
    IN  IF m >= 2 ^ (IntBits - 1) THEN m - 2 ^ IntBits ELSE m

\* strings.LastIndexByte
LastIndexByte(s, c) ==
    IF \E i \in 1..Len(s) : s[i] = c
    THEN (CHOOSE i \in 1..Len(s) : s[i] = c /\ \A j \in (i+1)..Len(s) : s[j] # c) - 1
    ELSE -1

fileExtension(path) ==
    LET n == LastIndexByte(path, ".")
    IN  IF n < 0 THEN <<>> ELSE From(path, n)

\* mime.TypeByExtension, for the extensions of the tree.
TypeByExtension(ext) ==
    CASE ext = <<".", "h", "t", "m", "l">> -> "text/html; charset=utf-8"
      [] ext = <<".", "h", "t", "m">>      -> "text/html; charset=utf-8"
      [] ext = <<".", "t", "x", "t">>      -> "text/plain; charset=utf-8"
      [] OTHER                             -> ""

\* The names f.Readdirnames(0) finds in directory p.
ChildNames(p) ==
    { From(q, Len(p) + 1) : q \in
        { q \in DOMAIN fs :
            /\ Len(q) > Len(p) + 1
            /\ SubSeq(q, 1, Len(p) + 1) = p \o <<"/">>
            /\ IndexByte(From(q, Len(p) + 1), "/") < 0
            /\ fs[q] # "none" } }

\* The orders in which a directory may enumerate a set of names.
Enumerations(S) ==
    { e \in [1..Cardinality(S) -> S] :
        \A i, j \in 1..Cardinality(S) : i # j => e[i] # e[j] }

----------------------------------------------------------------------------
(* sort.Sort(sort.StringSlice(filenames)) and html.EscapeString            *)

ByteCode(c) ==
    CASE c = NUL -> 0    [] c = "&" -> 38  [] c = "." -> 46  [] c = "/" -> 47
      [] c = "<" -> 60   [] c = ">" -> 62  [] c = "a" -> 97  [] c = "b" -> 98
      [] c = "d" -> 100  [] c = "e" -> 101 [] c = "g" -> 103 [] c = "h" -> 104
      [] c = "i" -> 105  [] c = "l" -> 108 [] c = "m" -> 109 [] c = "n" -> 110
      [] c = "o" -> 111  [] c = "r" -> 114 [] c = "t" -> 116 [] c = "w" -> 119
      [] c = "x" -> 120  [] c = "z" -> 122 [] OTHER -> 63

\* Go's a < b on strings: bytewise lexicographic.
RECURSIVE StringLess(_, _)
StringLess(a, b) ==
    IF b = <<>> THEN FALSE
    ELSE IF a = <<>> THEN TRUE
    ELSE IF ByteCode(Head(a)) # ByteCode(Head(b))
         THEN ByteCode(Head(a)) < ByteCode(Head(b))
         ELSE StringLess(Tail(a), Tail(b))

RECURSIVE InsertSorted(_, _)
InsertSorted(x, s) ==
    IF s = <<>> THEN <<x>>
    ELSE IF StringLess(x, Head(s)) THEN <<x>> \o s
    ELSE <<Head(s)>> \o InsertSorted(x, Tail(s))

\* A mutant of SortStrings: the names stay in the order of the enumeration.
SortStringsLeftOut(s) == s

RECURSIVE SortStrings(_)
SortStrings(s) ==
    IF s = <<>> THEN <<>> ELSE InsertSorted(Head(s), SortStrings(Tail(s)))

EscapeByte(c) ==
    CASE c = "<" -> <<"&", "l", "t", ";">>
      [] c = ">" -> <<"&", "g", "t", ";">>
      [] c = "&" -> <<"&", "a", "m", "p", ";">>
      [] OTHER   -> <<c>>

RECURSIVE EscapeString(_)
EscapeString(s) ==
    IF s = <<>> THEN <<>> ELSE EscapeByte(Head(s)) \o EscapeString(Tail(s))

\* u.Update(name); u.Path(): the child name resolved against the request
\* path, replacing what follows its last slash.
URIUpdatePath(basePath, name) ==
    SubSeq(basePath, 1, LastIndexByte(basePath, "/") + 1) \o name

----------------------------------------------------------------------------
(* openFSFile and createDirIndex.  Each returns the descriptor (ff), the   *)
(* error (err, "nil" for none), the handle operations it performed in      *)
(* order (trace) and the number of openFSFile calls made (calls).  In a    *)
(* descriptor, f is the path whose open handle it keeps (<<>>: f is nil).  *)

ZeroTime == 0

NoFile == [f |-> <<>>, dirIndex |-> <<>>, contentType |-> "",
           contentLength |-> 0, t |-> ZeroTime]

Opened(p) == [op |-> "open", path |-> p]

\* A mutant of Closed: the Close is left out.
CloseLeftOut(p) == [op |-> "none", path |-> p]

Closed(p) == [op |-> "close", path |-> p]

IsNotExist(err) == err = "ENOENT"

\* What openFSFile returns when openFSFile(indexPath) failed with err.
IndexError(err) == IF ~IsNotExist(err) THEN err ELSE "errDirIndexRequired"

RECURSIVE openFSFile(_)
openFSFile(filePath) ==
    LET kind == KindOf(filePath)
        fail(e, tr) == [ff |-> NoFile, err |-> e, trace |-> tr, calls |-> 1]
    IN  IF kind = "none" THEN fail("ENOENT", <<>>)
        ELSE IF kind = "eacces" THEN fail("EACCES", <<>>)
        ELSE IF kind = "statfail"
             THEN fail("EIO", <<Opened(filePath), Closed(filePath)>>)
        ELSE IF kind \in DirKinds
             THEN LET sub == openFSFile(filePath \o IndexHtml)
                      tr  == <<Opened(filePath), Closed(filePath)>> \o sub.trace
                  IN  IF sub.err = "nil"
                      THEN [sub EXCEPT !.trace = tr, !.calls = sub.calls + 1]
                      ELSE [ff |-> NoFile, err |-> IndexError(sub.err),
                            trace |-> tr, calls |-> sub.calls + 1]
        ELSE LET n == StatSize(filePath)
                 contentLength == ToInt(n)
             IN  IF n # contentLength
                 THEN fail("toobig", <<Opened(filePath), Closed(filePath)>>)
                 ELSE [ff |-> [f |-> filePath, dirIndex |-> <<>>,
                               contentType |->
                                   TypeByExtension(fileExtension(filePath)),
                               contentLength |-> contentLength,
                               t |-> ZeroTime],
                       err |-> "nil", trace |-> <<Opened(filePath)>>,
                       calls |-> 1]

\* One piece of the generated page.  The page is kept as the sequence of its
\* pieces, and its length is counted in pieces.
Piece(tag, href, text) == [tag |-> tag, href |-> href, text |-> text]

\* The list items of the sorted names.
ListItems(basePath, sorted) ==
    [i \in 1..Len(sorted) |->
        Piece("li", EscapeString(URIUpdatePath(basePath, sorted[i])),
              EscapeString(sorted[i]))]

\* filenames is the order in which Readdirnames enumerated the directory.
createDirIndex(basePath, filePath, filenames) ==
    LET basePathEscaped == EscapeString(basePath)
        head   == <<Piece("h1", <<>>, basePathEscaped)>>
        parent == IF Len(basePathEscaped) > 1
                  THEN <<Piece("li", <<".", ".">>, <<".", ".">>)>>
                  ELSE <<>>
        kind   == KindOf(filePath)
        fail(e, tr) == [ff |-> NoFile, err |-> e, trace |-> tr, calls |-> 0]
    IN  IF kind = "none" THEN fail("ENOENT", <<>>)
        ELSE IF kind = "eacces" THEN fail("EACCES", <<>>)
        ELSE IF kind # "dir"
             THEN fail("EIO", <<Opened(filePath), Closed(filePath)>>)
        ELSE LET dirIndex == head \o parent
                             \o ListItems(basePath, SortStrings(filenames))
             IN  [ff |-> [f |-> <<>>, dirIndex |-> dirIndex,
                          contentType |-> "text/html",
                          contentLength |-> Len(dirIndex), t |-> ZeroTime],
                  err |-> "nil",
                  trace |-> <<Opened(filePath), Closed(filePath)>>,
                  calls |-> 0]

StatusOK == 200

StatusBadRequest == 400

StatusNotFound == 404

\* The miss branch of handleRequest up to the insertion: openFSFile, then
\* createDirIndex when a directory index is required.  status is the error
\* status reported (StatusOK: none), listing tells that the descriptor is a
\* generated listing.
Resolve(basePath, filePath, filenames) ==
    LET o == openFSFile(filePath)
    IN  IF o.err = "errDirIndexRequired"
        THEN LET d == createDirIndex(basePath, filePath, filenames)
                 tr == o.trace \o d.trace
             IN  IF d.err # "nil"
                 THEN [ff |-> NoFile, err |-> d.err, status |-> StatusNotFound,
                       listing |-> FALSE, trace |-> tr, calls |-> o.calls]
                 ELSE [ff |-> d.ff, err |-> "nil", status |-> StatusOK,
                       listing |-> TRUE, trace |-> tr, calls |-> o.calls]
        ELSE IF o.err # "nil"
        THEN [ff |-> NoFile, err |-> o.err, status |-> StatusNotFound,
              listing |-> FALSE, trace |-> o.trace, calls |-> o.calls]
        ELSE [ff |-> o.ff, err |-> "nil", status |-> StatusOK,
              listing |-> FALSE, trace |-> o.trace, calls |-> o.calls]

----------------------------------------------------------------------------
(* Bounds and the data of specification Spec.                              *)

\* The requests of one run, each served by a goroutine of its own.
NWorkers == 2

\* The clock ticks of one run.
MaxTicks == 2

\* The largest buffer a consumer passes to Read.
MaxBuf == 2

\* The largest stripSlashes argument given to FSHandler.
MaxStripArg == 1

Workers == 1..NWorkers

FSHandlerCacheDuration == 10

SweepPeriod == FSHandlerCacheDuration \div 2

\* The clock advances in steps a little longer than the sweeper's sleep:
\* a sweep is due after every step, and two steps exceed the cache duration.
TickStep == SweepPeriod + 1

\* time.Now() when FSHandler is called: far later than the zero Time.
ClockStart == 100 * FSHandlerCacheDuration

MaxNow == ClockStart + MaxTicks * TickStep

\* t.Sub(u)
Sub(t, u) == t - u

\* "never put in the cache", in insertedAt.
Never == -1

\* The root argument given to FSHandler.
RootArg == <<"w", "/">>

\* FSHandler's normalisation of its root argument.
RECURSIVE FSHandlerRoot(_)
FSHandlerRoot(r) ==
    IF Len(r) > 0 /\ r[Len(r)] = "/"
    THEN FSHandlerRoot(SubSeq(r, 1, Len(r) - 1))
    ELSE IF Len(r) = 0 THEN <<".">> ELSE r

\* FSHandler's clamp of its stripSlashes argument.
FSHandlerStrip(s) == IF s < 0 THEN 0 ELSE s

W == FSHandlerRoot(RootArg)

\* The tree served by Spec.
MainFS ==
    (W :> "dir")
    @@ (W \o <<"/", "a">> :> "file")
    @@ (W \o <<"/", "e">> :> "dir")
    @@ (W \o <<"/", "e", "/", "a", ".", "t", "x", "t">> :> "file")
    @@ (W \o <<"/", "g">> :> "dir")
    @@ (W \o <<"/", "g">> \o IndexHtml :> "file")
    @@ (W \o <<"/", "g", "/", "b">> :> "bigfile")
    @@ (W \o <<"/", "g", "/", "d">> :> "dirnolist")
    @@ (W \o <<"/", "g", "/", "o">> :> "statfail")

\* The request paths (ctx.Path()) of Spec.
RawPaths ==
    { <<"/", "a">>, <<"/", "e">>, <<"/", "z">>, <<"/", NUL>>,
      <<"/", "g", "/", "b">>, <<"/", "g", "/", "d">>, <<"/", "g", "/", "o">> }

IdleWorker ==
    [pc |-> "idle", raw |-> <<>>, path |-> <<>>, ff |-> Nil, cur |-> Nil,
     got |-> <<>>, rerr |-> "nil", sent |-> 0, status |-> StatusOK,
     body |-> FALSE, ctype |-> "", clen |-> 0]

\* The variables of the other specifications, at rest.
StripIdle == [pc |-> "off", in |-> <<>>, s |-> 0, out |-> <<>>,
              panic |-> FALSE, iters |-> 0]

NoResult == [ff |-> NoFile, err |-> "nil", status |-> StatusOK,
             listing |-> FALSE, trace |-> <<>>, calls |-> 0]

ResolveIdle == [pc |-> "off", base |-> <<>>, path |-> <<>>, names |-> <<>>,
                res |-> NoResult]

\* The goroutines of SpecLock: the request handlers and the sweeper.
Sweeper == NWorkers + 1

Goroutines == Workers \cup {Sweeper}

LockIdle == [held |-> Nil, pc |-> [g \in Goroutines |-> "off"],
             path |-> [g \in Workers |-> <<>>], ff |-> [g \in Workers |-> Nil]]

MainInit ==
    /\ root = FSHandlerRoot(RootArg)
    /\ now = ClockStart
    /\ wakeAt = ClockStart + SweepPeriod
    /\ cache = [k \in {} |-> Nil]
    /\ files = <<>>
    /\ handles = <<>>
    /\ insertedAt = <<>>
    /\ cursors = <<>>
    /\ pool = {}
    /\ workers = [w \in Workers |-> IdleWorker]
    /\ panicked = FALSE

Init ==
    /\ MainInit
    /\ lk = LockIdle
    /\ \E s \in -1..MaxStripArg : stripSlashes = FSHandlerStrip(s)
    /\ fs = MainFS
    /\ sp = StripIdle
    /\ rs = ResolveIdle

----------------------------------------------------------------------------
(* fsFileReader                                                            *)

\* A mutant of CloseCursor: the binding is not cleared.
CloseCursorKeepsBinding(r) == [r EXCEPT !.offset = 0]

\* A mutant of CloseCursor: the offset is not reset.
CloseCursorKeepsOffset(r) == [r EXCEPT !.f = Nil, !.dirIndex = <<>>]

\* fsFileReader.Close: the fields of the cursor put back in the pool.
CloseCursor(r) == [f |-> Nil, dirIndex |-> <<>>, offset |-> 0]

\* A mutant of ReadOffset: every read starts at the beginning of the file.
ReadOffsetZero(r) == 0

\* The offset Read hands to ReadAt.
ReadOffset(r) == r.offset

\* f.ReadAt(p, off) with len(p) = n on handle h: the bytes read and the error.
ReadAt(h, n, off) ==
    IF handles[h].closed > 0
    THEN [data |-> <<>>, err |-> "ErrClosed"]
    ELSE LET content == FileContent(handles[h].path)
             data == SubSeq(content, off + 1, Min(off + n, Len(content)))
         IN  [data |-> data, err |-> IF Len(data) < n THEN "EOF" ELSE "nil"]

\* fsFileReader.Read with len(p) = n: the bytes copied to p, the error and
\* the cursor afterwards.
Read(r, n) ==
    IF r.f # Nil
    THEN LET got == ReadAt(r.f, n, ReadOffset(r))
         IN  [data |-> got.data, err |-> got.err,
              r |-> [r EXCEPT !.offset = r.offset + Len(got.data)]]
    ELSE IF r.offset = Len(r.dirIndex)
    THEN [data |-> <<>>, err |-> "EOF", r |-> r]
    ELSE LET data == SubSeq(r.dirIndex, r.offset + 1,
                            Min(r.offset + n, Len(r.dirIndex)))
         IN  [data |-> data, err |-> "nil",
              r |-> [r EXCEPT !.offset = r.offset + Len(data)]]

----------------------------------------------------------------------------
(* cleanCache                                                              *)

\* A mutant of Expired: the comparison is reversed.
ExpiredReversed(v, t) == Sub(t, v.t) < FSHandlerCacheDuration

\* The test of cleanCache on entry v at time t.
Expired(v, t) == Sub(t, v.t) > FSHandlerCacheDuration

\* The keys cleanCache deletes at time t.
SweptKeys(t) == { k \in DOMAIN cache : Expired(files[cache[k]], t) }

\* A mutant of AfterDelete: the entries stay in the map.
AfterDeleteKeepsEntries(swept) == cache

\* delete(h.cache, k) for every key cleanCache found expired.
AfterDelete(swept) == [k \in DOMAIN cache \ swept |-> cache[k]]

----------------------------------------------------------------------------
(* handleRequest                                                           *)

\* A mutant of NulIndex: only the first byte is looked at.
NulIndexFirstByte(path) == IF Len(path) > 0 /\ path[1] = NUL THEN 0 ELSE -1

\* bytes.IndexByte(path, 0)
NulIndex(path) == IndexByte(path, NUL)

\* A mutant of CacheHas: the lookup finds nothing.
CacheHasNothing(path) == FALSE

\* ok of ff, ok := h.cache[string(path)]
CacheHas(path) == path \in DOMAIN cache

\* handleRequest up to and including the cache lookup.
Begin(w, raw) ==
    /\ ~panicked
    /\ workers[w].pc = "idle"
    /\ \A v \in 1..(w - 1) : workers[v].pc # "idle"
    /\ LET n == stripPathSlashes(raw, stripSlashes)
           req == [IdleWorker EXCEPT !.raw = raw]
       IN  IF n.panic
           THEN /\ panicked' = TRUE
                /\ workers' = [workers EXCEPT ![w] = [req EXCEPT !.pc = "done"]]
           ELSE /\ panicked' = panicked
                /\ IF NulIndex(n.path) >= 0
                   THEN workers' = [workers EXCEPT ![w] =
                            [req EXCEPT !.pc = "done",
                                        !.status = StatusBadRequest]]
                   ELSE IF CacheHas(n.path)
                   THEN workers' = [workers EXCEPT ![w] =
                            [req EXCEPT !.pc = "reader", !.path = n.path,
                                        !.ff = cache[n.path]]]
                   ELSE workers' = [workers EXCEPT ![w] =
                            [req EXCEPT !.pc = "resolve", !.path = n.path]]
    /\ UNCHANGED <<root, stripSlashes, fs, now, wakeAt, cache, files, handles,
                   insertedAt, cursors, pool, sp, rs, lk>>

\* The miss branch: openFSFile and createDirIndex, without the lock.
ResolveStep(w) ==
    /\ ~panicked
    /\ workers[w].pc = "resolve"
    /\ \E filenames \in Enumerations(ChildNames(root \o workers[w].path)) :
         LET r == Resolve(workers[w].raw, root \o workers[w].path, filenames)
             h == Len(handles) + 1
         IN  IF r.err # "nil"
             THEN /\ workers' = [workers EXCEPT ![w] =
                             [IdleWorker EXCEPT !.pc = "done",
                                                !.raw = workers[w].raw,
                                                !.status = r.status]]
                  /\ UNCHANGED <<files, handles, insertedAt>>
             ELSE /\ files' = Append(files,
                        [r.ff EXCEPT !.f = IF r.ff.f = <<>> THEN Nil ELSE h])
                  /\ handles' = IF r.ff.f = <<>> THEN handles
                                ELSE Append(handles,
                                            [path |-> r.ff.f, closed |-> 0,
                                             closedAt |-> Never])
                  /\ insertedAt' = Append(insertedAt, Never)
                  /\ workers' = [workers EXCEPT ![w].pc = "insert",
                                                ![w].ff = Len(files) + 1]
    /\ UNCHANGED <<root, stripSlashes, fs, now, wakeAt, cache, cursors, pool,
                   panicked, sp, rs, lk>>

\* h.cache[string(path)] = ff, under the lock.
InsertStep(w) ==
    /\ ~panicked
    /\ workers[w].pc = "insert"
    /\ cache' = [k \in DOMAIN cache \cup {workers[w].path} |->
                    IF k = workers[w].path THEN workers[w].ff ELSE cache[k]]
    /\ insertedAt' = [insertedAt EXCEPT ![workers[w].ff] = now]
    /\ workers' = [workers EXCEPT ![w].pc = "reader"]
    /\ UNCHANGED <<root, stripSlashes, fs, now, wakeAt, files, handles,
                   cursors, pool, panicked, sp, rs, lk>>

\* A mutant of Respond: SetContentType is left out.
RespondNoContentType(w, c) ==
    [workers EXCEPT ![w].pc = "stream", ![w].cur = c, ![w].body = TRUE,
                    ![w].raw = <<>>, ![w].path = <<>>,
                    ![w].clen = files[workers[w].ff].contentLength]

\* The response once ff.Reader() has returned cursor c.
Respond(w, c) ==
    [workers EXCEPT ![w].pc = "stream", ![w].cur = c, ![w].body = TRUE,
                    ![w].raw = <<>>, ![w].path = <<>>,
                    ![w].clen = files[workers[w].ff].contentLength,
                    ![w].ctype = files[workers[w].ff].contentType]

\* ff.Reader() when the pool gives nothing, SetBodyStream, SetContentType.
AcquireNew(w) ==
    /\ ~panicked
    /\ workers[w].pc = "reader"
    /\ cursors' = Append(cursors, [f |-> files[workers[w].ff].f,
                                   dirIndex |-> files[workers[w].ff].dirIndex,
                                   offset |-> 0])
    /\ workers' = Respond(w, Len(cursors) + 1)
    /\ UNCHANGED <<root, stripSlashes, fs, now, wakeAt, cache, files, handles,
                   insertedAt, pool, panicked, sp, rs, lk>>

\* A mutant of PoolGet: the cursor handed out stays in the pool.
PoolGetLeavesItem(v) == pool

\* fsFileReaderPool.Get() returned cursor v: what is left in the pool.
PoolGet(v) == pool \ {v}

\* ff.Reader() when the pool gives cursor v, SetBodyStream, SetContentType.
AcquirePooled(w, v) ==
    /\ ~panicked
    /\ workers[w].pc = "reader"
    /\ v \in pool
    /\ pool' = PoolGet(v)
    /\ cursors' = [cursors EXCEPT ![v].f = files[workers[w].ff].f,
                                  ![v].dirIndex = files[workers[w].ff].dirIndex]
    /\ panicked' = (cursors[v].offset > 0)
    /\ workers' = Respond(w, v)
    /\ UNCHANGED <<root, stripSlashes, fs, now, wakeAt, cache, files, handles,
                   insertedAt, sp, rs, lk>>

\* The consumer of the body stream reads into a buffer of n bytes.
ReadStep(w, n) ==
    /\ ~panicked
    /\ workers[w].pc = "stream"
    /\ workers[w].rerr = "nil"
    /\ LET res == Read(cursors[workers[w].cur], n)
       IN  /\ cursors' = [cursors EXCEPT ![workers[w].cur] = res.r]
           /\ workers' = [workers EXCEPT ![w].got = @ \o res.data,
                                         ![w].rerr = res.err]
    /\ UNCHANGED <<root, stripSlashes, fs, now, wakeAt, cache, files, handles,
                   insertedAt, pool, panicked, sp, rs, lk>>

\* The consumer of the body stream closes it: fsFileReader.Close.
CloseStep(w) ==
    /\ ~panicked
    /\ workers[w].pc = "stream"
    /\ cursors' = [cursors EXCEPT ![workers[w].cur] = CloseCursor(@)]
    /\ pool' = pool \cup {workers[w].cur}
    /\ workers' = [workers EXCEPT ![w] =
           [IdleWorker EXCEPT !.pc = "done", !.body = TRUE,
                              !.sent = Len(workers[w].got)]]
    /\ UNCHANGED <<root, stripSlashes, fs, now, wakeAt, cache, files, handles,
                   insertedAt, panicked, sp, rs, lk>>

\* The sweeper goroutine: time.Sleep has returned, cleanCache runs.
Sweep ==
    /\ ~panicked
    /\ now >= wakeAt
    /\ LET swept == SweptKeys(now)
           closes(h) == Cardinality({k \in swept : files[cache[k]].f = h})
       IN  /\ handles' = [h \in DOMAIN handles |->
                  IF closes(h) = 0 THEN handles[h]
                  ELSE [handles[h] EXCEPT !.closed = @ + closes(h),
                                          !.closedAt = now]]
           /\ cache' = AfterDelete(swept)
    /\ wakeAt' = now + SweepPeriod
    /\ UNCHANGED <<root, stripSlashes, fs, now, files, insertedAt, cursors,
                   pool, workers, panicked, sp, rs, lk>>

\* Time passes.
Tick ==
    /\ now < MaxNow
    /\ now' = now + TickStep
    /\ UNCHANGED <<root, stripSlashes, fs, wakeAt, cache, files, handles,
                   insertedAt, cursors, pool, workers, panicked, sp, rs, lk>>

Next ==
    \/ \E w \in Workers, raw \in RawPaths : Begin(w, raw)
    \/ \E w \in Workers : ResolveStep(w)
    \/ \E w \in Workers : InsertStep(w)
    \/ \E w \in Workers : AcquireNew(w)
    \/ \E w \in Workers, v \in pool : AcquirePooled(w, v)
    \/ \E w \in Workers, n \in 1..MaxBuf : ReadStep(w, n)
    \/ \E w \in Workers : CloseStep(w)
    \/ Sweep
    \/ Tick

Spec == Init /\ [][Next]_vars

----------------------------------------------------------------------------
(* SpecStrip: stripPathSlashes on every well-formed path of bounded length *)
(* and on the path of FSHandler's documentation.                           *)

\* The longest path tried.
MaxPathLen == 4

\* The largest strip count tried.
MaxStrip == 3

Alphabet == {"/", "a", NUL}

BoundedPaths == UNION { [1..n -> Alphabet] : n \in 0..MaxPathLen }

\* What ctx.Path() can return: a path that starts with a slash, or nothing.
WellFormed(p) == p = <<>> \/ p[1] = "/"

FooBar == <<"/", "f", "o", "o", "/", "b", "a", "r">>

StripInputs == { p \in BoundedPaths : WellFormed(p) } \cup {FooBar}

InitStrip ==
    /\ MainInit
    /\ lk = LockIdle
    /\ stripSlashes = 0
    /\ fs = MainFS
    /\ rs = ResolveIdle
    /\ \E p \in StripInputs, s \in -1..MaxStrip :
         sp = [pc |-> "call", in |-> p, s |-> FSHandlerStrip(s), out |-> <<>>,
               panic |-> FALSE, iters |-> 0]

StripCall ==
    /\ sp.pc = "call"
    /\ LET r == stripPathSlashes(sp.in, sp.s)
       IN  sp' = [sp EXCEPT !.pc = "done", !.out = r.path, !.panic = r.panic,
                            !.iters = r.iters]
    /\ UNCHANGED <<root, stripSlashes, fs, now, wakeAt, cache, files, handles,
                   insertedAt, cursors, pool, workers, panicked, rs, lk>>

NextStrip == StripCall

SpecStrip == InitStrip /\ [][NextStrip]_vars

----------------------------------------------------------------------------
(* SpecResolve: one resolution of the directory /g in every tree made of   *)
(* nested index.html entries, to a bounded depth.                          *)

\* The deepest index.html of the trees: /g/index.html/.../index.html.
MaxDepth == 3

ResolveBase == <<"/", "g">>

\* /g followed by k times /index.html, under the root.
RECURSIVE Nest(_)
Nest(k) == IF k = 0 THEN W \o ResolveBase ELSE Nest(k - 1) \o IndexHtml

ResolveTrees ==
    { t \in [{W} \cup { Nest(k) : k \in 0..MaxDepth } -> Kinds \cup {"none"}] :
        /\ t[W] = "dir"
        /\ \A k \in 1..MaxDepth :
             t[Nest(k)] # "none" => t[Nest(k - 1)] \in DirKinds }

InitResolve ==
    /\ MainInit
    /\ lk = LockIdle
    /\ stripSlashes = 0
    /\ sp = StripIdle
    /\ fs \in ResolveTrees
    /\ rs = [pc |-> "call", base |-> ResolveBase, path |-> Nest(0),
             names |-> <<>>, res |-> NoResult]

ResolveCall ==
    /\ rs.pc = "call"
    /\ \E filenames \in Enumerations(ChildNames(rs.path)) :
         rs' = [rs EXCEPT !.pc = "done", !.names = filenames,
                          !.res = Resolve(rs.base, rs.path, filenames)]
    /\ UNCHANGED <<root, stripSlashes, fs, now, wakeAt, cache, files, handles,
                   insertedAt, cursors, pool, workers, panicked, sp, lk>>

NextResolve == ResolveCall

SpecResolve == InitResolve /\ [][NextResolve]_vars

----------------------------------------------------------------------------
(* SpecIndex: one resolution of a directory without index.html, the root   *)
(* or the directory /g, in every tree that gives it some of three          *)
(* children, files or directories, enumerated in every order.              *)

IndexNames == { <<"b", ".", "t", "x", "t">>, <<"a", ".", "t", "x", "t">>,
                <<"i", "n", "d", "e", "x", ".", "h", "t", "m">> }

\* The requests: ctx.Path() and the directory it names under the root.
IndexRequests ==
    { [base |-> <<"/">>, path |-> W],
      [base |-> ResolveBase, path |-> W \o ResolveBase] }

\* The trees in which dir is a directory with some of the children.
IndexTrees(dir) ==
    { t \in [{W, dir} \cup { dir \o <<"/">> \o n : n \in IndexNames }
                -> {"none", "file", "dir", "dirnolist"}] :
        /\ t[W] \in DirKinds
        /\ t[dir] \in DirKinds
        /\ dir # W => t[W] = "dir"
        /\ \A n \in IndexNames : t[dir \o <<"/">> \o n] # "dirnolist" }

InitIndex ==
    /\ MainInit
    /\ lk = LockIdle
    /\ stripSlashes = 0
    /\ sp = StripIdle
    /\ \E q \in IndexRequests :
         /\ fs \in IndexTrees(q.path)
         /\ rs = [pc |-> "call", base |-> q.base, path |-> q.path,
                  names |-> <<>>, res |-> NoResult]

NextIndex == ResolveCall

SpecIndex == InitIndex /\ [][NextIndex]_vars

----------------------------------------------------------------------------
(* SpecLock: handleRequest and cleanCache statement by statement around    *)
(* cacheLock.  lk.held is the goroutine that holds the lock, lk.pc[g] the   *)
(* line of fshandler.go goroutine g is about to execute.  The sweeper's     *)
(* sleep may end at any moment.                                             *)

\* The request paths of SpecLock: a file, a directory to list, nothing.
LockPaths == { <<"/", "a">>, <<"/", "e">>, <<"/", "z">> }

\* A mutant of Unlocked: the Unlock is left out.
UnlockLeftOut(g) == g

\* cacheLock.Unlock() by g: the holder afterwards.
Unlocked(g) == Nil

\* cacheLock.Lock() by g returns: the holder afterwards.
Locked(g) == g

InitLock ==
    /\ MainInit
    /\ stripSlashes = 0
    /\ fs = MainFS
    /\ sp = StripIdle
    /\ rs = ResolveIdle
    /\ lk = [LockIdle EXCEPT
                !.pc = [g \in Goroutines |->
                           IF g = Sweeper THEN "l61" ELSE "l150"]]

\* Lines 150-157: the path is normalised and checked.
LStart(g, raw) ==
    /\ lk.pc[g] = "l150"
    /\ LET n == stripPathSlashes(raw, stripSlashes)
       IN  lk' = IF n.panic \/ NulIndex(n.path) >= 0
                 THEN [lk EXCEPT !.pc[g] = "done"]
                 ELSE [lk EXCEPT !.pc[g] = "l159", !.path[g] = n.path]
    /\ UNCHANGED <<root, stripSlashes, fs, now, wakeAt, cache, files, handles,
                   insertedAt, cursors, pool, workers, panicked, sp, rs>>

\* Lines 159 and 180: h.cacheLock.Lock() returns once the lock is free.
LLock(g) ==
    /\ lk.pc[g] \in {"l159", "l180"}
    /\ lk.held = Nil
    /\ lk' = [lk EXCEPT !.held = Locked(g),
                        !.pc[g] = IF lk.pc[g] = "l159" THEN "l160" ELSE "l181"]
    /\ UNCHANGED <<root, stripSlashes, fs, now, wakeAt, cache, files, handles,
                   insertedAt, cursors, pool, workers, panicked, sp, rs>>

\* Line 160: ff, ok := h.cache[string(path)]
LLookup(g) ==
    /\ lk.pc[g] = "l160"
    /\ lk' = [lk EXCEPT !.pc[g] = "l161",
                        !.ff[g] = IF CacheHas(lk.path[g])
                                  THEN cache[lk.path[g]] ELSE Nil]
    /\ UNCHANGED <<root, stripSlashes, fs, now, wakeAt, cache, files, handles,
                   insertedAt, cursors, pool, workers, panicked, sp, rs>>

\* Lines 161 and 182: h.cacheLock.Unlock()
LUnlock(g) ==
    /\ lk.pc[g] \in {"l161", "l182"}
    /\ lk' = [lk EXCEPT !.held = Unlocked(g),
                        !.pc[g] = IF lk.pc[g] = "l161" /\ lk.ff[g] = Nil
                                  THEN "l166" ELSE "l185"]
    /\ UNCHANGED <<root, stripSlashes, fs, now, wakeAt, cache, files, handles,
                   insertedAt, cursors, pool, workers, panicked, sp, rs>>

\* Lines 164-178: openFSFile and createDirIndex.
LResolve(g) ==
    /\ lk.pc[g] = "l166"
    /\ \E filenames \in Enumerations(ChildNames(root \o lk.path[g])) :
         LET r == Resolve(lk.path[g], root \o lk.path[g], filenames)
             h == Len(handles) + 1
         IN  IF r.err # "nil"
             THEN /\ lk' = [lk EXCEPT !.pc[g] = "done"]
                  /\ UNCHANGED <<files, handles, insertedAt>>
             ELSE /\ files' = Append(files,
                        [r.ff EXCEPT !.f = IF r.ff.f = <<>> THEN Nil ELSE h])
                  /\ handles' = IF r.ff.f = <<>> THEN handles
                                ELSE Append(handles,
                                            [path |-> r.ff.f, closed |-> 0,
                                             closedAt |-> Never])
                  /\ insertedAt' = Append(insertedAt, Never)
                  /\ lk' = [lk EXCEPT !.pc[g] = "l180",
                                      !.ff[g] = Len(files) + 1]
    /\ UNCHANGED <<root, stripSlashes, fs, now, wakeAt, cache, cursors, pool,
                   workers, panicked, sp, rs>>

\* Line 181: h.cache[string(path)] = ff
LInsert(g) ==
    /\ lk.pc[g] = "l181"
    /\ cache' = [k \in DOMAIN cache \cup {lk.path[g]} |->
                    IF k = lk.path[g] THEN lk.ff[g] ELSE cache[k]]
    /\ insertedAt' = [insertedAt EXCEPT ![lk.ff[g]] = now]
    /\ lk' = [lk EXCEPT !.pc[g] = "l182"]
    /\ UNCHANGED <<root, stripSlashes, fs, now, wakeAt, files, handles,
                   cursors, pool, workers, panicked, sp, rs>>

\* Lines 185-186, and the reads of the body stream that follow.
LServe(g) ==
    /\ lk.pc[g] = "l185"
    /\ lk' = [lk EXCEPT !.pc[g] = "done"]
    /\ UNCHANGED <<root, stripSlashes, fs, now, wakeAt, cache, files, handles,
                   insertedAt, cursors, pool, workers, panicked, sp, rs>>

\* Line 61: time.Sleep returns; line 136: time.Now().
LWake ==
    /\ lk.pc[Sweeper] = "l61"
    /\ lk' = [lk EXCEPT !.pc[Sweeper] = "l137"]
    /\ UNCHANGED <<root, stripSlashes, fs, now, wakeAt, cache, files, handles,
                   insertedAt, cursors, pool, workers, panicked, sp, rs>>

\* Line 137: h.cacheLock.Lock()
LSweepLock ==
    /\ lk.pc[Sweeper] = "l137"
    /\ lk.held = Nil
    /\ lk' = [lk EXCEPT !.held = Locked(Sweeper), !.pc[Sweeper] = "l138"]
    /\ UNCHANGED <<root, stripSlashes, fs, now, wakeAt, cache, files, handles,
                   insertedAt, cursors, pool, workers, panicked, sp, rs>>

\* Lines 138-145: the loop over the map.
LClean ==
    /\ lk.pc[Sweeper] = "l138"
    /\ LET swept == SweptKeys(now)
           closes(h) == Cardinality({k \in swept : files[cache[k]].f = h})
       IN  /\ handles' = [h \in DOMAIN handles |->
                  IF closes(h) = 0 THEN handles[h]
                  ELSE [handles[h] EXCEPT !.closed = @ + closes(h),
                                          !.closedAt = now]]
           /\ cache' = AfterDelete(swept)
    /\ lk' = [lk EXCEPT !.pc[Sweeper] = "l146"]
    /\ UNCHANGED <<root, stripSlashes, fs, now, wakeAt, files, insertedAt,
                   cursors, pool, workers, panicked, sp, rs>>

\* Line 146: h.cacheLock.Unlock()
LSweepUnlock ==
    /\ lk.pc[Sweeper] = "l146"
    /\ lk' = [lk EXCEPT !.held = Unlocked(Sweeper), !.pc[Sweeper] = "l61"]
    /\ UNCHANGED <<root, stripSlashes, fs, now, wakeAt, cache, files, handles,
                   insertedAt, cursors, pool, workers, panicked, sp, rs>>

NextLock ==
    \/ \E g \in Workers, raw \in LockPaths : LStart(g, raw)
    \/ \E g \in Workers : LLock(g)
    \/ \E g \in Workers : LLookup(g)
    \/ \E g \in Workers : LUnlock(g)
    \/ \E g \in Workers : LResolve(g)
    \/ \E g \in Workers : LInsert(g)
    \/ \E g \in Workers : LServe(g)
    \/ LWake
    \/ LSweepLock
    \/ LClean
    \/ LSweepUnlock

SpecLock == InitLock /\ [][NextLock]_vars

----------------------------------------------------------------------------
(* The cache duration and the sweep (Spec).                                *)

\* The fsFile objects the cache holds.
Cached == { cache[k] : k \in DOMAIN cache }

\* (C1, as claimed) The expiry time is counted from the insertion: a sweep
\* removes an entry only if more than FSHandlerCacheDuration has passed
\* since the entry was put in the cache, so an entry inserted less than one
\* duration before a sweep is still cached after it.
C1_TTLCountedFromInsertion ==
    [][Sweep =>
         \A k \in DOMAIN cache :
             k \notin DOMAIN cache' =>
                 Sub(now, insertedAt[cache[k]]) > FSHandlerCacheDuration]_vars

\* (C2) No handle is closed twice, and a sweep that finds an entry put in
\* the cache more than FSHandlerCacheDuration ago removes the entry and
\* leaves its handle closed, by one Close.
C2_ExpiredEntrySweptOnce ==
    /\ [](\A h \in DOMAIN handles : handles[h].closed <= 1)
    /\ [][Sweep =>
            \A k \in DOMAIN cache :
                Sub(now, insertedAt[cache[k]]) > FSHandlerCacheDuration =>
                    /\ k \notin DOMAIN cache'
                    /\ cache[k] \notin { cache'[j] : j \in DOMAIN cache' }
                    /\ files[cache[k]].f # Nil =>
                           handles'[files[cache[k]].f].closed = 1]_vars

\* A descriptor with a handle was put in the cache, stayed there for more
\* than the cache duration, and the sweep then removed it and closed the
\* handle once.
C2_Witness ==
    \E i \in DOMAIN files :
        /\ files[i].f # Nil
        /\ insertedAt[i] # Never
        /\ i \notin Cached
        /\ handles[files[i].f].closed = 1
        /\ Sub(handles[files[i].f].closedAt, insertedAt[i])
               > FSHandlerCacheDuration

\* (C3, as claimed) Every handle kept open by a resolution is closed by a
\* later sweep.  The sweep closes the handles of the descriptors it finds in
\* the map and no others, and a descriptor enters the map only by the
\* insertion of the request that resolved it: so the claim needs every open
\* handle to belong to a descriptor that is in the map or about to be put
\* there.
C3_OpenHandlesReachTheSweep ==
    \A i \in DOMAIN files :
        (files[i].f # Nil /\ handles[files[i].f].closed = 0) =>
            \/ i \in Cached
            \/ \E w \in Workers : workers[w].pc = "insert" /\ workers[w].ff = i

\* (C15) The handle of a descriptor is closed by the sweep only, in the step
\* that removes the descriptor's entry from the map: every descriptor in the
\* map that has a handle has it open, and a step that closes a handle is a
\* sweep that deletes an entry of that handle's descriptor; no step of a
\* request closes one.
C15_ClosedOnlyBySweep ==
    /\ [](\A i \in Cached :
            files[i].f # Nil => handles[files[i].f].closed = 0)
    /\ [][\A h \in DOMAIN handles :
            handles'[h] # handles[h] =>
                /\ Sweep
                /\ \E k \in DOMAIN cache :
                      /\ files[cache[k]].f = h
                      /\ k \notin DOMAIN cache']_vars

\* The sweep has closed the handle of an entry it removed, and the map holds
\* a newer descriptor of the same file, its handle open.
C15_Witness ==
    \E i, j \in DOMAIN files :
        /\ files[i].f # Nil /\ files[j].f # Nil
        /\ handles[files[i].f].closed = 1
        /\ i \notin Cached
        /\ j \in Cached
        /\ handles[files[j].f].path = handles[files[i].f].path
        /\ handles[files[j].f].closed = 0

\* (C17) A request that finds its path in the map goes on to serve the
\* descriptor found there, without resolving, and neither its lookup nor any
\* of its later steps changes the map, a descriptor (its timestamp
\* included), the time an entry was inserted, or the handles.
C17_HitLeavesCacheAlone ==
    [][\A w \in Workers :
          /\ \A raw \in RawPaths :
                LET n == stripPathSlashes(raw, stripSlashes)
                IN  (Begin(w, raw) /\ n.path \in DOMAIN cache) =>
                        /\ workers'[w].pc = "reader"
                        /\ workers'[w].ff = cache[n.path]
                        /\ UNCHANGED <<cache, files, handles, insertedAt>>
          /\ (workers[w].pc \in {"reader", "stream"}
                 /\ workers'[w] # workers[w]) =>
                UNCHANGED <<cache, files, handles, insertedAt>>]_vars

\* Two requests are served from the one descriptor ever resolved: the second
\* found it in the map.
C17_Witness ==
    \E w, v \in Workers :
        /\ w # v
        /\ Len(files) = 1
        /\ 1 \in Cached
        /\ workers[w].pc = "stream" /\ workers[w].ff = 1
        /\ workers[v].pc \in {"reader", "stream"} /\ workers[v].ff = 1

----------------------------------------------------------------------------
(* The readers (Spec).                                                     *)

\* The requests whose body stream is being read from the file of handle h.
Streaming(h) ==
    { w \in Workers :
        workers[w].pc = "stream" /\ cursors[workers[w].cur].f = h }

\* (C4) Whatever the interleaving of the reads of the cursors on one handle,
\* what each consumer has received is the file from its first byte up to the
\* cursor's offset, and the whole file once it has met the end of the data.
C4_CursorsSeeTheFile ==
    \A h \in DOMAIN handles : \A w \in Streaming(h) :
        LET content == FileContent(handles[h].path)
            got == workers[w].got
        IN  /\ Len(got) = cursors[workers[w].cur].offset
            /\ Len(got) <= Len(content)
            /\ got = SubSeq(content, 1, Len(got))
            /\ workers[w].rerr = "EOF" => got = content

\* Two cursors acquired on the same cached file, both read to the end.
C4_Witness ==
    \E w1, w2 \in Workers :
        /\ w1 # w2
        /\ workers[w1].pc = "stream" /\ workers[w2].pc = "stream"
        /\ workers[w1].ff = workers[w2].ff
        /\ workers[w1].cur # workers[w2].cur
        /\ files[workers[w1].ff].f # Nil
        /\ workers[w1].rerr = "EOF" /\ workers[w2].rerr = "EOF"
        /\ workers[w1].got = workers[w2].got
        /\ Len(workers[w1].got) > 1

HasNul(p) == \E i \in 1..Len(p) : p[i] = NUL

\* (C5, as claimed) A request whose raw path holds a NUL byte is answered
\* with StatusBadRequest and goes no further, whatever stripSlashes is.
C5_RawNulRejected ==
    \A w \in Workers :
        HasNul(workers[w].raw) =>
            workers[w].pc = "done" /\ workers[w].status = StatusBadRequest

\* (C5, amended) A request whose path still holds a NUL byte after
\* stripPathSlashes is answered with StatusBadRequest and nothing else: no
\* lookup result, no descriptor, no cursor, no body stream, and the cache,
\* the descriptors, the handles and the pool are as before.  No request
\* that went past the check has a NUL byte in its path.
C5_StrippedNulRejected ==
    /\ [](\A w \in Workers : ~HasNul(workers[w].path))
    /\ [][\A w \in Workers, raw \in RawPaths :
            (Begin(w, raw) /\ HasNul(stripPathSlashes(raw, stripSlashes).path))
                => /\ workers'[w] = [IdleWorker EXCEPT
                                        !.pc = "done", !.raw = raw,
                                        !.status = StatusBadRequest]
                   /\ UNCHANGED <<cache, files, handles, cursors, pool>>]_vars

\* A request with a NUL byte left in its stripped path was rejected.
C5_Witness ==
    \E w \in Workers :
        /\ workers[w].pc = "done"
        /\ workers[w].status = StatusBadRequest
        /\ HasNul(stripPathSlashes(workers[w].raw, stripSlashes).path)
        /\ ~workers[w].body

\* (C8, as claimed) Closing a cursor whose offset is not zero raises the
\* fatal check, and the cursor does not go back to the pool.
C8_ReleaseWithOffsetIsFatal ==
    [][\A w \in Workers :
          (CloseStep(w) /\ cursors[workers[w].cur].offset > 0)
              => panicked' /\ workers[w].cur \notin pool']_vars

\* (C8, amended) Closing a cursor whose offset is not zero raises nothing:
\* the cursor goes back to the pool with its binding cleared and its offset
\* reset to zero.
C8_ReleaseWithOffsetResets ==
    [][\A w \in Workers :
          (CloseStep(w) /\ cursors[workers[w].cur].offset > 0)
              => /\ ~panicked'
                 /\ workers[w].cur \in pool'
                 /\ cursors'[workers[w].cur] =
                        [f |-> Nil, dirIndex |-> <<>>, offset |-> 0]]_vars

\* A consumer that had received bytes closed its stream, and there has been
\* no panic: the cursors of the pool have offset zero.
C8_Witness ==
    /\ ~panicked
    /\ \E w \in Workers : workers[w].pc = "done" /\ workers[w].sent > 0
    /\ pool # {}
    /\ \A c \in pool : cursors[c].offset = 0

----------------------------------------------------------------------------
(* The outcome of a request (Spec).                                        *)


\* (C11) A request ends in one outcome.  Either an error status is reported:
\* then no body stream, content length or content type is set, the request
\* holds no descriptor and no cursor, and the step that reported the error
\* left the cache, the descriptors and the handles as they were; a request
\* that has reached the insertion reports no error afterwards.  Or a body
\* stream is set with the content length and content type of the descriptor
\* served, and no error status is reported.
C11_OneOutcome ==
    /\ [](\A w \in Workers :
            /\ workers[w].status \in
                   {StatusOK, StatusBadRequest, StatusNotFound}
            /\ workers[w].status # StatusOK =>
                   /\ workers[w].pc = "done"
                   /\ ~workers[w].body
                   /\ workers[w].ctype = "" /\ workers[w].clen = 0
                   /\ workers[w].ff = Nil /\ workers[w].cur = Nil
            /\ workers[w].body => workers[w].status = StatusOK
            /\ workers[w].pc = "stream" =>
                   /\ workers[w].body
                   /\ workers[w].cur \in DOMAIN cursors
                   /\ workers[w].clen = files[workers[w].ff].contentLength
                   /\ workers[w].ctype = files[workers[w].ff].contentType
            /\ (workers[w].pc = "done" /\ ~panicked) =>
                   (workers[w].status # StatusOK) # workers[w].body)
    /\ [][\A w \in Workers :
            /\ (workers[w].status = StatusOK /\ workers'[w].status # StatusOK)
                  => /\ workers[w].pc \in {"idle", "resolve"}
                     /\ UNCHANGED <<cache, files, handles, insertedAt,
                                    cursors, pool>>
            /\ workers[w].pc \in {"insert", "reader", "stream"}
                  => workers'[w].status = StatusOK]_vars

\* One request failed on each kind of failing step, or was served with a
\* body, while the cache held an entry.
C11_Witness ==
    /\ \E w \in Workers :
          /\ workers[w].pc = "done"
          /\ workers[w].status = StatusNotFound
          /\ workers[w].raw = <<"/", "g", "/", "b">>
    /\ \E w \in Workers :
          /\ workers[w].pc = "done"
          /\ workers[w].body /\ workers[w].sent > 0
    /\ cache # <<>>

----------------------------------------------------------------------------
(* The pool of cursors (Spec).                                             *)

\* The requests that hold a cursor: Reader() has returned it, Close has not
\* been called yet.
Holders(c) == { w \in Workers : workers[w].pc = "stream" /\ workers[w].cur = c }

\* (C12) A cursor is owned by one consumer at a time: no cursor is held by
\* two requests, a cursor of the pool is held by none, and a request holds a
\* cursor exactly from Reader() to Close.
C12_CursorsExclusive ==
    /\ pool \subseteq DOMAIN cursors
    /\ \A c \in DOMAIN cursors :
          /\ Cardinality(Holders(c)) <= 1
          /\ c \in pool => Holders(c) = {}
    /\ \A w \in Workers :
          IF workers[w].pc = "stream"
          THEN workers[w].cur \in DOMAIN cursors
          ELSE workers[w].cur = Nil

\* A cursor released by one request has been acquired again, from the pool,
\* by the next one.
C12_Witness ==
    /\ Len(cursors) = 1
    /\ pool = {}
    /\ \E w, v \in Workers :
          /\ workers[w].pc = "done" /\ workers[w].sent > 0
          /\ workers[v].pc = "stream" /\ workers[v].cur = 1

\* (C18) Every cursor of the pool has offset zero and no binding, and the
\* cursor Reader() returns, new or taken from the pool, has offset zero and
\* the handle and the generated page of the descriptor it was asked for;
\* Reader() never finds a pooled cursor with an offset.
C18_CursorsStartAtZero ==
    /\ [](\A c \in pool :
            cursors[c] = [f |-> Nil, dirIndex |-> <<>>, offset |-> 0])
    /\ [][\A w \in Workers :
            (workers[w].pc = "reader" /\ workers'[w].pc = "stream") =>
                LET c  == workers'[w].cur
                    ff == files[workers[w].ff]
                IN  /\ ~panicked'
                    /\ c \in DOMAIN cursors'
                    /\ cursors'[c].offset = 0
                    /\ cursors'[c].f = ff.f
                    /\ cursors'[c].dirIndex = ff.dirIndex]_vars

\* The one cursor, which served a file to its end, now serves a generated
\* listing from its beginning.
C18_Witness ==
    /\ Len(cursors) = 1
    /\ Len(files) = 2
    /\ files[1].f # Nil
    /\ files[2].f = Nil
    /\ \E w, v \in Workers :
          /\ workers[w].pc = "done" /\ workers[w].sent > 0
          /\ workers[v].pc = "stream" /\ workers[v].cur = 1
          /\ workers[v].ff = 2
          /\ workers[v].got = <<>>
    /\ cursors[1] = [f |-> Nil, dirIndex |-> files[2].dirIndex, offset |-> 0]

\* (C19, as claimed) No cursor is acquired on, and no Read is made on, a
\* handle the sweep has closed.
C19_NoReadOnClosedHandle ==
    [][\A w \in Workers :
          /\ (workers[w].pc = "reader" /\ workers'[w].pc = "stream"
                 /\ files[workers[w].ff].f # Nil) =>
                handles[files[workers[w].ff].f].closed = 0
          /\ (workers[w].pc = "stream" /\ workers'[w].pc = "stream"
                 /\ workers'[w] # workers[w]
                 /\ cursors[workers[w].cur].f # Nil) =>
                /\ handles[cursors[workers[w].cur].f].closed = 0
                /\ workers'[w].rerr # "ErrClosed"]_vars

----------------------------------------------------------------------------
(* stripPathSlashes (SpecStrip).                                           *)

StartsWithSlash(p) == Len(p) > 0 /\ p[1] = "/"

EndsWithSlash(p) == Len(p) > 0 /\ p[Len(p)] = "/"

\* (C6, as claimed) The result of a path that starts with a slash neither
\* starts nor ends with a slash, unless it is empty.
C6_NoSlashAtEitherEnd ==
    (sp.pc = "done" /\ StartsWithSlash(sp.in)) =>
        ~StartsWithSlash(sp.out) /\ ~EndsWithSlash(sp.out)

\* (C6, amended) The result of a path that starts with a slash never ends
\* with a slash; unless it is empty, it starts with one.
C6_NoTrailingSlash ==
    (sp.pc = "done" /\ StartsWithSlash(sp.in)) =>
        /\ ~sp.panic
        /\ ~EndsWithSlash(sp.out)
        /\ sp.out # <<>> => StartsWithSlash(sp.out)

\* A path with several trailing slashes was normalised to a non-empty path.
C6_Witness ==
    /\ sp.pc = "done"
    /\ sp.in = <<"/", "a", "/", "/">>
    /\ sp.s = 0
    /\ sp.out = <<"/", "a">>

\* The places of the slashes of p, and the place of the k-th of them.
SlashPlaces(p) == { i \in 1..Len(p) : p[i] = "/" }

KthSlash(p, k) ==
    CHOOSE i \in SlashPlaces(p) :
        Cardinality({ j \in SlashPlaces(p) : j <= i }) = k

\* p without the slashes at its end.
WithoutTrailingSlashes(p) ==
    LET m == CHOOSE m \in 0..Len(p) :
                 /\ m = 0 \/ p[m] # "/"
                 /\ \A j \in (m + 1)..Len(p) : p[j] = "/"
    IN  SubSeq(p, 1, m)

\* (C7) With strip count s the result is the part of the path that begins at
\* its (s+1)-th slash, without the slashes at its end, and the empty path when
\* the path has fewer than s+1 slashes; "/foo/bar" gives "/foo/bar", "/bar"
\* and "" for s = 0, 1 and 2.
C7_SuffixFromSlash ==
    sp.pc = "done" =>
        /\ ~sp.panic
        /\ sp.out =
              IF Cardinality(SlashPlaces(sp.in)) < sp.s + 1
              THEN <<>>
              ELSE WithoutTrailingSlashes(
                       SubSeq(sp.in, KthSlash(sp.in, sp.s + 1), Len(sp.in)))
        /\ sp.in = FooBar =>
              sp.out = CASE sp.s = 0 -> FooBar
                         [] sp.s = 1 -> <<"/", "b", "a", "r">>
                         [] OTHER    -> <<>>

\* "/foo/bar" with one segment stripped gave "/bar".
C7_Witness ==
    /\ sp.pc = "done"
    /\ sp.in = FooBar
    /\ sp.s = 1
    /\ sp.out = <<"/", "b", "a", "r">>

\* (C13) On a path that is empty or starts with a slash, whatever the strip
\* count, "BUG: path must start with slash" is never raised, and the first
\* loop begins at most as many iterations as the strip count.
C13_NoPanicOnWellFormed ==
    (sp.pc = "done" /\ WellFormed(sp.in)) =>
        /\ ~sp.panic
        /\ sp.iters <= sp.s

\* Two segments were stripped in two iterations: after the first the path
\* started with a slash again.
C13_Witness ==
    /\ sp.pc = "done"
    /\ sp.in = <<"/", "a", "/", "a">>
    /\ sp.s = 3
    /\ sp.iters = 2
    /\ ~sp.panic
    /\ sp.out = <<>>

----------------------------------------------------------------------------
(* The resolver (SpecResolve).                                             *)

\* The paths opened, successfully, by the resolution.
OpenedPaths == { rs.res.trace[i].path : i \in DOMAIN rs.res.trace }

\* (C9, as claimed) A directory that holds a regular file index.html
\* resolves to the descriptor of that file: its handle, the type of .html,
\* the size of the file; never to a listing.  A listing is generated only
\* when opening index.html fails with not-found.
C9_IndexHtmlOrListing ==
    rs.pc = "done" =>
        /\ (KindOf(rs.path) \in DirKinds
                /\ KindOf(rs.path \o IndexHtml) = "file") =>
               /\ rs.res.err = "nil"
               /\ ~rs.res.listing
               /\ rs.res.ff.f = rs.path \o IndexHtml
               /\ rs.res.ff.dirIndex = <<>>
               /\ rs.res.ff.contentType = "text/html; charset=utf-8"
               /\ rs.res.ff.contentLength = StatSize(rs.path \o IndexHtml)
        /\ rs.res.listing => KindOf(rs.path \o IndexHtml) = "none"

\* (C10, as claimed) The index.html fallback goes one level deep: a request
\* makes at most two calls of openFSFile and never opens
\* path/index.html/index.html.
C10_OneLevelOfFallback ==
    rs.pc = "done" =>
        /\ rs.res.calls <= 2
        /\ rs.path \o IndexHtml \o IndexHtml \notin OpenedPaths

\* The handles of path p the resolution has opened and not closed, after the
\* first n operations of its trace.
StillOpen(p, n) ==
    Cardinality({ i \in 1..n : rs.res.trace[i] = Opened(p) })
        - Cardinality({ i \in 1..n : rs.res.trace[i] = Closed(p) })

\* (C20) A resolution that returns an error, and one that returns a
\* generated listing, has closed every handle it opened; a resolution that
\* returns the descriptor of a regular file has closed every handle but the
\* one the descriptor keeps.  Nothing is closed that is not open.
C20_NoHandleLeftOpen ==
    rs.pc = "done" =>
        LET tr == rs.res.trace
            kept == IF rs.res.err = "nil" /\ ~rs.res.listing
                    THEN {rs.res.ff.f} ELSE {}
        IN  /\ \A i \in DOMAIN tr : tr[i].op \in {"open", "close"}
            /\ \A i \in DOMAIN tr : \A n \in 0..Len(tr) :
                   StillOpen(tr[i].path, n) \in {0, 1}
            /\ \A i \in DOMAIN tr :
                   StillOpen(tr[i].path, Len(tr)) =
                       IF tr[i].path \in kept THEN 1 ELSE 0
            /\ kept \subseteq OpenedPaths
            /\ (rs.res.err # "nil" \/ rs.res.listing) => rs.res.ff.f = <<>>

\* The directory's index.html was too big a file: the directory and the
\* file were opened and closed, and an error returned.
C20_Witness ==
    /\ rs.pc = "done"
    /\ rs.res.err = "toobig"
    /\ rs.res.trace = <<Opened(rs.path), Closed(rs.path),
                        Opened(rs.path \o IndexHtml),
                        Closed(rs.path \o IndexHtml)>>

----------------------------------------------------------------------------
(* The generated listing (SpecIndex).                                      *)

\* The list items of the generated page that follow its first k pieces.
ItemsAfter(k) ==
    SubSeq(rs.res.ff.dirIndex, k + 1, Len(rs.res.ff.dirIndex))

AllThree == <<<<"a", ".", "t", "x", "t">>, <<"b", ".", "t", "x", "t">>,
              <<"i", "n", "d", "e", "x", ".", "h", "t", "m">>>>

\* (C14) The listing of a directory that can be listed has, after its
\* heading, a ".." item exactly when the request path is not the root, then
\* one item per child name and nothing else, the names in increasing order
\* whatever the order of the enumeration: the children b.txt, a.txt and
\* index.htm come out as a.txt, b.txt, index.htm.
C14_ListingSorted ==
    (rs.pc = "done" /\ KindOf(rs.path) = "dir") =>
        LET names == ChildNames(rs.path)
            page  == rs.res.ff.dirIndex
            k     == IF rs.base = <<"/">> THEN 1 ELSE 2
            items == ItemsAfter(k)
        IN  /\ rs.res.listing /\ rs.res.err = "nil"
            /\ Len(page) >= k
            /\ page[1].tag = "h1"
            /\ rs.base # <<"/">> =>
                   page[2] = Piece("li", <<".", ".">>, <<".", ".">>)
            /\ Len(items) = Cardinality(names)
            /\ \A i \in DOMAIN items :
                   /\ items[i].tag = "li"
                   /\ \E n \in names : items[i].text = EscapeString(n)
            /\ \A n \in names :
                   \E i \in DOMAIN items : items[i].text = EscapeString(n)
            /\ \A i, j \in DOMAIN items :
                   i < j => \E a, b \in names :
                       /\ items[i].text = EscapeString(a)
                       /\ items[j].text = EscapeString(b)
                       /\ StringLess(a, b)
            /\ names = IndexNames =>
                   [i \in DOMAIN items |-> items[i].text] = AllThree

\* The directory /g enumerated b.txt, a.txt, index.htm, and the listing was
\* generated.
C14_Witness ==
    /\ rs.pc = "done"
    /\ rs.base = ResolveBase
    /\ rs.names = <<<<"b", ".", "t", "x", "t">>, <<"a", ".", "t", "x", "t">>,
                    <<"i", "n", "d", "e", "x", ".", "h", "t", "m">>>>
    /\ rs.res.listing
    /\ Len(rs.res.ff.dirIndex) = 5

----------------------------------------------------------------------------
(* The cache lock (SpecLock).                                              *)

\* The lines at which a handler is between Lock and Unlock: the map read
\* and its Unlock, the map write and its Unlock.
HandlerLocked == {"l160", "l161", "l181", "l182"}

\* The lines at which the sweeper is between Lock and Unlock.
SweeperLocked == {"l138", "l146"}

\* (C16) A handler holds cacheLock exactly around the map read of line 160
\* and around the map write of line 181, and the sweeper around its loop: a
\* handler that opens, stats, lists or serves a file holds no lock, so
\* whoever holds the lock is at a map operation or its Unlock and never
\* waits; a step that changes the map, or reads it, is a step of the holder
\* of the lock, and a step that opens a file is not.
C16_LockAroundMapOnly ==
    /\ [](\A g \in Workers :
            /\ (lk.held = g) <=> (lk.pc[g] \in HandlerLocked)
            /\ (lk.held = Sweeper) <=> (lk.pc[Sweeper] \in SweeperLocked)
            /\ lk.held \in Goroutines \cup {Nil}
            /\ lk.pc[g] \in {"l166", "l185"} => lk.held # g)
    /\ [][\A g \in Workers :
            /\ cache' # cache =>
                  /\ lk.held \in Goroutines
                  /\ lk.pc'[lk.held] # lk.pc[lk.held]
            /\ (lk.ff'[g] # lk.ff[g] /\ files' = files) => lk.held = g
            /\ files' # files =>
                  \E o \in Workers :
                      lk.pc'[o] # lk.pc[o] /\ lk.held # o]_vars

\* A handler is resolving its file while another one holds the lock for its
\* map write and the sweeper waits for the lock.
C16_Witness ==
    \E g, o \in Workers :
        /\ lk.pc[g] = "l166"
        /\ lk.pc[o] = "l181"
        /\ lk.held = o
        /\ lk.pc[Sweeper] = "l137"

====
